---- MODULE Spec2Model ----
(***************************************************************************)
(* Visual Leak Detector - internal C++ heap management (src/vldheap.cpp).  *)
(*                                                                         *)
(* vldnew and vlddelete are modelled statement group by statement group,   *)
(* one thread-local program counter per calling thread.  The block list    *)
(* g_vldBlockList is an intrusive doubly linked list whose links live in   *)
(* the block headers; header memory is modelled per header address.        *)
(***************************************************************************)
EXTENDS Integers, Sequences, FiniteSets, TLC

\* ---------------------------------------------------------------- bounds
NumThreads == 2          \* threads calling the new/delete operators
MaxBlocks  == 3          \* blocks the private heap can hold at once
MaxNew     == 3          \* vldnew calls issued in one load cycle
NumLoaders == 2          \* host modules that load the detector (vld_dll1, vld_dll2)
MaxTracked == 2          \* host allocations tracked in one load cycle
MaxCycles  == 2          \* load cycles (0 -> 1 ... 1 -> 0) in one run

\* ------------------------------------------------------------- constants
NULL        == 0         \* nullptr
HeaderSize  == 6         \* sizeof(vldblockheader_t), in words (six fields)
BlockStride == 8         \* distance between two heap block addresses

Threads  == 1 .. NumThreads
NoThread == 0

\* Addresses RtlAllocateHeap can return (header addresses).
HeapAddrs == { k * BlockStride : k \in 1 .. MaxBlocks }

\* Arguments (size, file, line) the callers pass to operator new.
NewArgs == { [size |-> 1, file |-> "a.cpp", line |-> 10],
             [size |-> 2, file |-> "b.cpp", line |-> 20] }

\* Contents of heap memory the program has not written since it was allocated.
Junk == [file |-> "?", line |-> -1, serialNumber |-> -1, size |-> -1,
         prev |-> -1, next |-> -1]

\* VLDBLOCKDATA / VLDBLOCKHEADER: the data section starts right behind the
\* header, the header is found right before the data section.
VLDBLOCKDATA(h)   == h + HeaderSize
VLDBLOCKHEADER(d) == d - HeaderSize

VARIABLES
    g_vldBlockList,   \* head of the list of internally allocated blocks
    mem,              \* header memory: header address -> header fields
    heapBlocks,       \* addresses currently allocated on g_vldHeap
    serialnumber,     \* static size_t serialnumber in vldnew
    heap_mutex,       \* owner of get_heap_mutex(), NoThread when free
    pc,               \* per thread: position inside vldnew / vlddelete
    args,             \* per thread: (size, file, line) of the running vldnew
    header,           \* per thread: local variable header
    tmp,              \* per thread: value of serialnumber read by serialnumber++
    block,            \* per thread: parameter block of the running vlddelete
    ret,              \* per thread: value returned by the last vldnew
    owned,            \* per thread: blocks obtained from vldnew and not yet deleted
    nCalls,           \* number of vldnew calls issued
    nNewOk,           \* number of vldnew calls that returned non-null
    nDeleted,         \* number of vlddelete calls issued on such blocks
    serials,          \* serial numbers handed out, in order of assignment
    loadCount,        \* load-cycle counter: loads without a matching unload
    loaders,          \* host modules that currently hold the detector loaded
    tracked,          \* unresolved allocations of the host, as tracked by the detector
    reports,          \* leak counts reported by the teardowns so far
    firstLoader,      \* host module whose load started the current cycle
    peakDepth,        \* deepest nesting reached in the current cycle
    observed,         \* what the test's last leak-count query returned
    prevSerials,      \* serial numbers handed out in the previous load cycle
    lpc,              \* per host module: where it is inside onLoad / onUnload
    lval              \* per host module: the counter value its atomic step returned

vars == << g_vldBlockList, mem, heapBlocks, serialnumber, heap_mutex, pc, args,
           header, tmp, block, ret, owned, nCalls, nNewOk, nDeleted, serials,
           loadCount, loaders, tracked, reports, firstLoader, peakDepth,
           observed, prevSerials, lpc, lval >>

cycleVars == << loadCount, loaders, tracked, reports, firstLoader, peakDepth,
               observed, prevSerials, lpc, lval >>

heapVars  == << g_vldBlockList, mem, heapBlocks, serialnumber, heap_mutex >>
ghostVars == << nCalls, nNewOk, nDeleted, serials >>

NoArgs == [size |-> 0, file |-> "", line |-> 0]

\* The statics of vldheap.cpp as the loader initialises them, an empty
\* private heap, and no thread inside the module.
HeapInit ==
    /\ g_vldBlockList = NULL
    /\ mem = [a \in HeapAddrs |-> Junk]
    /\ heapBlocks = {}
    /\ serialnumber = 0
    /\ heap_mutex = NoThread
    /\ pc = [t \in Threads |-> "idle"]
    /\ args = [t \in Threads |-> NoArgs]
    /\ header = [t \in Threads |-> NULL]
    /\ tmp = [t \in Threads |-> 0]
    /\ block = [t \in Threads |-> NULL]
    /\ ret = [t \in Threads |-> NULL]
    /\ owned = [t \in Threads |-> {}]
    /\ nCalls = 0
    /\ nNewOk = 0
    /\ nDeleted = 0
    /\ serials = << >>

\* The module has been loaded once, by the first host module.
Init ==
    /\ HeapInit
    /\ loadCount = 1
    /\ loaders = {1}
    /\ tracked = 0
    /\ reports = << >>
    /\ firstLoader = 1
    /\ peakDepth = 1
    /\ observed = -1
    /\ prevSerials = 0
    /\ lpc = [m \in 1 .. NumLoaders |-> "idle"]
    /\ lval = [m \in 1 .. NumLoaders |-> 0]

\* The parameters and locals of a call end with the call.
LeaveNew(t) ==
    /\ args' = [args EXCEPT ![t] = NoArgs]
    /\ header' = [header EXCEPT ![t] = NULL]
    /\ tmp' = [tmp EXCEPT ![t] = 0]

LeaveDelete(t) ==
    /\ block' = [block EXCEPT ![t] = NULL]
    /\ header' = [header EXCEPT ![t] = NULL]

\* ------------------------------------------------------------------ vldnew

\* Mutant of CallNew: the lock is taken on entry, before the heap call.
CallNew_locked(t, a) ==
    /\ pc[t] = "idle"
    /\ nCalls < MaxNew
    /\ heap_mutex = NoThread
    /\ heap_mutex' = t
    /\ args' = [args EXCEPT ![t] = a]
    /\ pc' = [pc EXCEPT ![t] = "new_alloc"]
    /\ nCalls' = nCalls + 1
    /\ UNCHANGED << g_vldBlockList, mem, heapBlocks, serialnumber, header, tmp,
                    block, ret, owned, nNewOk, nDeleted, serials, cycleVars >>

\* operator new (size, file, line): the caller enters vldnew.
CallNew(t, a) ==
    /\ pc[t] = "idle"
    /\ nCalls < MaxNew
    /\ a.size > 0 /\ a.file # "" /\ a.line > 0
    /\ args' = [args EXCEPT ![t] = a]
    /\ pc' = [pc EXCEPT ![t] = "new_alloc"]
    /\ nCalls' = nCalls + 1
    /\ UNCHANGED << heapVars, header, tmp, block, ret, owned, nNewOk, nDeleted, serials,
                    cycleVars >>

\* header = RtlAllocateHeap(g_vldHeap, 0, size + sizeof(vldblockheader_t)):
\* any free block of the heap, or nullptr when the heap is out of memory.
RtlAllocateHeap(t) ==
    /\ pc[t] = "new_alloc"
    /\ \E h \in (HeapAddrs \ heapBlocks) \cup {NULL} :
          /\ header' = [header EXCEPT ![t] = h]
          /\ heapBlocks' = IF h = NULL THEN heapBlocks ELSE heapBlocks \cup {h}
    /\ pc' = [pc EXCEPT ![t] = "new_check"]
    /\ UNCHANGED << g_vldBlockList, mem, serialnumber, heap_mutex, args, tmp,
                    block, ret, owned, ghostVars, cycleVars >>

\* Mutant of NewOutOfMemory: the null header is installed as the list head
\* before the failure is noticed.
NewOutOfMemory_clearsList(t) ==
    /\ pc[t] = "new_check"
    /\ header[t] = NULL
    /\ g_vldBlockList' = header[t]
    /\ ret' = [ret EXCEPT ![t] = NULL]
    /\ pc' = [pc EXCEPT ![t] = "idle"]
    /\ LeaveNew(t)
    /\ UNCHANGED << mem, heapBlocks, serialnumber, heap_mutex, block, owned,
                    ghostVars, cycleVars >>

\* Mutant of NewOutOfMemory: the failed call uses up a serial number.
NewOutOfMemory_consumesSerial(t) ==
    /\ pc[t] = "new_check"
    /\ header[t] = NULL
    /\ serialnumber' = serialnumber + 1
    /\ ret' = [ret EXCEPT ![t] = NULL]
    /\ pc' = [pc EXCEPT ![t] = "idle"]
    /\ LeaveNew(t)
    /\ UNCHANGED << g_vldBlockList, mem, heapBlocks, heap_mutex, block, owned,
                    ghostVars, cycleVars >>

\* if (header == nullptr) return nullptr;
NewOutOfMemory(t) ==
    /\ pc[t] = "new_check"
    /\ header[t] = NULL
    /\ ret' = [ret EXCEPT ![t] = NULL]
    /\ pc' = [pc EXCEPT ![t] = "idle"]
    /\ LeaveNew(t)
    /\ UNCHANGED << heapVars, block, owned, ghostVars, cycleVars >>

\* Mutant of NewFillRead: file and line are not written into the header.
NewFillRead_noFile(t) ==
    /\ pc[t] = "new_check"
    /\ header[t] # NULL
    /\ tmp' = [tmp EXCEPT ![t] = serialnumber]
    /\ pc' = [pc EXCEPT ![t] = "new_fill"]
    /\ UNCHANGED << g_vldBlockList, mem, heapBlocks, serialnumber, heap_mutex, args,
                    header, block, ret, owned, ghostVars, cycleVars >>

\* header->file = file; header->line = line; and the read half of
\* serialnumber++ (the static counter is read and written without the lock).
NewFillRead(t) ==
    /\ pc[t] = "new_check"
    /\ header[t] # NULL
    /\ mem' = [mem EXCEPT ![header[t]].file = args[t].file,
                          ![header[t]].line = args[t].line]
    /\ tmp' = [tmp EXCEPT ![t] = serialnumber]
    /\ pc' = [pc EXCEPT ![t] = "new_fill"]
    /\ UNCHANGED << g_vldBlockList, heapBlocks, serialnumber, heap_mutex, args,
                    header, block, ret, owned, ghostVars, cycleVars >>

\* Mutant of NewFillWrite: the counter is not incremented.
NewFillWrite_noIncrement(t) ==
    /\ pc[t] = "new_fill"
    /\ serialnumber' = tmp[t]
    /\ mem' = [mem EXCEPT ![header[t]].serialNumber = tmp[t],
                          ![header[t]].size = args[t].size]
    /\ serials' = Append(serials, tmp[t])
    /\ pc' = [pc EXCEPT ![t] = "new_lock"]
    /\ UNCHANGED << g_vldBlockList, heapBlocks, heap_mutex, args, header, tmp,
                    block, ret, owned, nCalls, nNewOk, nDeleted, cycleVars >>

\* Mutant of NewFillWrite: the size of the whole block is stored.
NewFillWrite_totalSize(t) ==
    /\ pc[t] = "new_fill"
    /\ serialnumber' = tmp[t] + 1
    /\ mem' = [mem EXCEPT ![header[t]].serialNumber = tmp[t],
                          ![header[t]].size = args[t].size + HeaderSize]
    /\ serials' = Append(serials, tmp[t])
    /\ pc' = [pc EXCEPT ![t] = "new_lock"]
    /\ UNCHANGED << g_vldBlockList, heapBlocks, heap_mutex, args, header, tmp,
                    block, ret, owned, nCalls, nNewOk, nDeleted, cycleVars >>

\* the write half of header->serialNumber = serialnumber++; header->size = size;
NewFillWrite(t) ==
    /\ pc[t] = "new_fill"
    /\ serialnumber' = tmp[t] + 1
    /\ mem' = [mem EXCEPT ![header[t]].serialNumber = tmp[t],
                          ![header[t]].size = args[t].size]
    /\ serials' = Append(serials, tmp[t])
    /\ pc' = [pc EXCEPT ![t] = "new_lock"]
    /\ UNCHANGED << g_vldBlockList, heapBlocks, heap_mutex, args, header, tmp,
                    block, ret, owned, nCalls, nNewOk, nDeleted, cycleVars >>

\* std::scoped_lock lock(get_heap_mutex());
NewLock(t) ==
    /\ pc[t] = "new_lock"
    /\ heap_mutex = NoThread
    /\ heap_mutex' = t
    /\ pc' = [pc EXCEPT ![t] = "new_link_next"]
    /\ UNCHANGED << g_vldBlockList, mem, heapBlocks, serialnumber, args, header,
                    tmp, block, ret, owned, ghostVars, cycleVars >>

\* Mutant of NewLinkNext: the old head's back pointer is not set.
NewLinkNext_noBack(t) ==
    /\ pc[t] = "new_link_next"
    /\ mem' = [mem EXCEPT ![header[t]].next = g_vldBlockList]
    /\ pc' = [pc EXCEPT ![t] = "new_link_head"]
    /\ UNCHANGED << g_vldBlockList, heapBlocks, serialnumber, heap_mutex, args,
                    header, tmp, block, ret, owned, ghostVars, cycleVars >>

\* header->next = g_vldBlockList; if (header->next != nullptr) header->next->prev = header;
NewLinkNext(t) ==
    /\ pc[t] = "new_link_next"
    /\ LET h == header[t]
           n == g_vldBlockList
       IN  mem' = IF n # NULL
                  THEN [mem EXCEPT ![h].next = n, ![n].prev = h]
                  ELSE [mem EXCEPT ![h].next = n]
    /\ pc' = [pc EXCEPT ![t] = "new_link_head"]
    /\ UNCHANGED << g_vldBlockList, heapBlocks, serialnumber, heap_mutex, args,
                    header, tmp, block, ret, owned, ghostVars, cycleVars >>

\* Mutant of NewLinkHead: the list head is not moved to the new block.
NewLinkHead_noHead(t) ==
    /\ pc[t] = "new_link_head"
    /\ mem' = [mem EXCEPT ![header[t]].prev = NULL]
    /\ pc' = [pc EXCEPT ![t] = "new_return"]
    /\ UNCHANGED << g_vldBlockList, heapBlocks, serialnumber, heap_mutex, args,
                    header, tmp, block, ret, owned, ghostVars, cycleVars >>

\* header->prev = nullptr; g_vldBlockList = header;
NewLinkHead(t) ==
    /\ pc[t] = "new_link_head"
    /\ mem' = [mem EXCEPT ![header[t]].prev = NULL]
    /\ g_vldBlockList' = header[t]
    /\ pc' = [pc EXCEPT ![t] = "new_return"]
    /\ UNCHANGED << heapBlocks, serialnumber, heap_mutex, args, header, tmp,
                    block, ret, owned, ghostVars, cycleVars >>

\* Mutant of NewReturn: the lock is still held after the return.
NewReturn_keepsLock(t) ==
    /\ pc[t] = "new_return"
    /\ ret' = [ret EXCEPT ![t] = VLDBLOCKDATA(header[t])]
    /\ owned' = [owned EXCEPT ![t] = @ \cup
                    { [ptr |-> VLDBLOCKDATA(header[t]), size |-> args[t].size,
                       file |-> args[t].file, line |-> args[t].line] }]
    /\ nNewOk' = nNewOk + 1
    /\ pc' = [pc EXCEPT ![t] = "idle"]
    /\ LeaveNew(t)
    /\ UNCHANGED << g_vldBlockList, mem, heapBlocks, serialnumber, heap_mutex,
                    block, nCalls, nDeleted, serials, cycleVars >>

\* return VLDBLOCKDATA(header); the scoped_lock is released on the way out.
NewReturn(t) ==
    /\ pc[t] = "new_return"
    /\ heap_mutex' = NoThread
    /\ ret' = [ret EXCEPT ![t] = VLDBLOCKDATA(header[t])]
    /\ owned' = [owned EXCEPT ![t] = @ \cup
                    { [ptr |-> VLDBLOCKDATA(header[t]), size |-> args[t].size,
                       file |-> args[t].file, line |-> args[t].line] }]
    /\ nNewOk' = nNewOk + 1
    /\ pc' = [pc EXCEPT ![t] = "idle"]
    /\ LeaveNew(t)
    /\ UNCHANGED << g_vldBlockList, mem, heapBlocks, serialnumber, block,
                    nCalls, nDeleted, serials, cycleVars >>

\* --------------------------------------------------------------- vlddelete

\* operator delete (block): nullptr or a block this caller got from vldnew.
CallDelete(t, p) ==
    /\ pc[t] = "idle"
    /\ p = NULL \/ \E o \in owned[t] : o.ptr = p
    /\ block' = [block EXCEPT ![t] = p]
    /\ owned' = [owned EXCEPT ![t] = { o \in @ : o.ptr # p }]
    /\ nDeleted' = IF p = NULL THEN nDeleted ELSE nDeleted + 1
    /\ pc' = [pc EXCEPT ![t] = "del_check"]
    /\ UNCHANGED << heapVars, args, header, tmp, ret, nCalls, nNewOk, serials, cycleVars >>

\* Mutant of DeleteNull: the lock is taken before the null check and the
\* early return leaves it held.
DeleteNull_keepsLock(t) ==
    /\ pc[t] = "del_check"
    /\ block[t] = NULL
    /\ heap_mutex = NoThread
    /\ heap_mutex' = t
    /\ pc' = [pc EXCEPT ![t] = "idle"]
    /\ LeaveDelete(t)
    /\ UNCHANGED << g_vldBlockList, mem, heapBlocks, serialnumber, args, tmp, ret,
                    owned, ghostVars, cycleVars >>

\* if (block == nullptr) return;
DeleteNull(t) ==
    /\ pc[t] = "del_check"
    /\ block[t] = NULL
    /\ pc' = [pc EXCEPT ![t] = "idle"]
    /\ LeaveDelete(t)
    /\ UNCHANGED << heapVars, args, tmp, ret, owned, ghostVars, cycleVars >>

\* vldblockheader_t *header = VLDBLOCKHEADER((LPVOID)block);
DeleteHeader(t) ==
    /\ pc[t] = "del_check"
    /\ block[t] # NULL
    /\ header' = [header EXCEPT ![t] = VLDBLOCKHEADER(block[t])]
    /\ pc' = [pc EXCEPT ![t] = "del_lock"]
    /\ UNCHANGED << heapVars, args, tmp, block, ret, owned, ghostVars, cycleVars >>

\* Mutant of DeleteLock: the block is released as soon as the lock is
\* taken, before it is unlinked.
DeleteLock_releases(t) ==
    /\ pc[t] = "del_lock"
    /\ heap_mutex = NoThread
    /\ heap_mutex' = t
    /\ heapBlocks' = heapBlocks \ {header[t]}
    /\ pc' = [pc EXCEPT ![t] = "del_unlink_prev"]
    /\ UNCHANGED << g_vldBlockList, mem, serialnumber, args, header,
                    tmp, block, ret, owned, ghostVars, cycleVars >>

\* std::scoped_lock lock(get_heap_mutex());
DeleteLock(t) ==
    /\ pc[t] = "del_lock"
    /\ heap_mutex = NoThread
    /\ heap_mutex' = t
    /\ pc' = [pc EXCEPT ![t] = "del_unlink_prev"]
    /\ UNCHANGED << g_vldBlockList, mem, heapBlocks, serialnumber, args, header,
                    tmp, block, ret, owned, ghostVars, cycleVars >>

\* Mutant of DeleteUnlinkPrev: the list head is not moved when the first
\* block is unlinked.
DeleteUnlinkPrev_noHead(t) ==
    /\ pc[t] = "del_unlink_prev"
    /\ LET h == mem[header[t]]
       IN  mem' = IF h.prev # NULL
                  THEN [mem EXCEPT ![h.prev].next = h.next]
                  ELSE mem
    /\ pc' = [pc EXCEPT ![t] = "del_unlink_next"]
    /\ UNCHANGED << g_vldBlockList, heapBlocks, serialnumber, heap_mutex, args,
                    header, tmp, block, ret, owned, ghostVars, cycleVars >>

\* if (header->prev) header->prev->next = header->next; else g_vldBlockList = header->next;
DeleteUnlinkPrev(t) ==
    /\ pc[t] = "del_unlink_prev"
    /\ LET h == mem[header[t]]
       IN  IF h.prev # NULL
           THEN /\ mem' = [mem EXCEPT ![h.prev].next = h.next]
                /\ UNCHANGED g_vldBlockList
           ELSE /\ g_vldBlockList' = h.next
                /\ UNCHANGED mem
    /\ pc' = [pc EXCEPT ![t] = "del_unlink_next"]
    /\ UNCHANGED << heapBlocks, serialnumber, heap_mutex, args, header, tmp,
                    block, ret, owned, ghostVars, cycleVars >>

\* Mutant of DeleteUnlinkNext: the successor's back pointer is left alone.
DeleteUnlinkNext_skip(t) ==
    /\ pc[t] = "del_unlink_next"
    /\ pc' = [pc EXCEPT ![t] = "del_free"]
    /\ UNCHANGED << g_vldBlockList, mem, heapBlocks, serialnumber, heap_mutex, args,
                    header, tmp, block, ret, owned, ghostVars, cycleVars >>

\* if (header->next) header->next->prev = header->prev;
DeleteUnlinkNext(t) ==
    /\ pc[t] = "del_unlink_next"
    /\ LET h == mem[header[t]]
       IN  mem' = IF h.next # NULL
                  THEN [mem EXCEPT ![h.next].prev = h.prev]
                  ELSE mem
    /\ pc' = [pc EXCEPT ![t] = "del_free"]
    /\ UNCHANGED << g_vldBlockList, heapBlocks, serialnumber, heap_mutex, args,
                    header, tmp, block, ret, owned, ghostVars, cycleVars >>

\* bool freed = RtlFreeHeap(g_vldHeap, 0, header); assert(freed); then the
\* function ends and the scoped_lock is released.  The memory goes back to
\* the heap, which owns its contents from then on.
RtlFreeHeap(t) ==
    /\ pc[t] = "del_free"
    /\ header[t] \in heapBlocks
    /\ heapBlocks' = heapBlocks \ {header[t]}
    /\ heap_mutex' = NoThread
    /\ pc' = [pc EXCEPT ![t] = "idle"]
    /\ mem' = [mem EXCEPT ![header[t]] = Junk]
    /\ LeaveDelete(t)
    /\ UNCHANGED << g_vldBlockList, serialnumber, args, tmp, ret, owned,
                    ghostVars, cycleVars >>

\* -------------------------------------------------------------- load cycle

Loaders == 1 .. NumLoaders

\* Conversions of the test's query: an int returned as a 32-bit UINT (kept as
\* its two 16-bit halves) and that UINT read back as an int by the caller.
ToUINT(x) == [hi |-> (x \div 65536) % 65536, lo |-> x % 65536]
ToInt(u)  == IF u.hi >= 32768 THEN (u.hi - 65536) * 65536 + u.lo
                              ELSE u.hi * 65536 + u.lo

\* GetModuleHandle(sVld_dll): non-null exactly while the module is loaded.
GetModuleHandle == IF loadCount >= 1 THEN 1 ELSE NULL

\* The module's exported leak-count query: unresolved tracked allocations.
QueryActiveLeakCount == tracked

\* Mutant of VLDGetLeaksCount: 0 instead of the sentinel when the module
\* is not loaded.
VLDGetLeaksCount_zero ==
    ToInt(IF GetModuleHandle # NULL THEN ToUINT(QueryActiveLeakCount) ELSE ToUINT(0))

\* UINT VLDGetLeaksCount() of the test, assigned to an int by its callers.
VLDGetLeaksCount ==
    ToInt(IF GetModuleHandle # NULL THEN ToUINT(QueryActiveLeakCount) ELSE ToUINT(-1))

\* "did this call cause the 0 -> 1 edge", from the counter's new value.
IsFirstLoad(n)   == n = 1

\* Mutant of IsFinalUnload: every unload tears down.
IsFinalUnload_any(n) == n >= 0

\* "did this call cause the 1 -> 0 edge", from the counter's new value.
IsFinalUnload(n) == n = 0

\* Mutant of TeardownTracked: teardown keeps the tracking state.
TeardownTracked_keeps(n) == n

\* Teardown clears all tracking state: the count it leaves behind.
TeardownTracked(n) == 0

\* Mutant of StaticSerial: the counter keeps the value it had.
StaticSerial_stale == serialnumber

\* static size_t serialnumber = 0; the value the loader gives the counter.
StaticSerial == 0

\* Teardown releases the private heap with every block still on it and
\* clears the block list; the statics keep their last values until the
\* module is loaded again.
HeapTeardown ==
    /\ g_vldBlockList' = NULL
    /\ mem' = [a \in HeapAddrs |-> Junk]
    /\ heapBlocks' = {}
    /\ owned' = [t \in Threads |-> {}]
    /\ ret' = [t \in Threads |-> NULL]
    /\ UNCHANGED << serialnumber, heap_mutex, pc, args, header, tmp, block,
                    ghostVars >>

\* What the first load creates afresh: the private heap, the statics of
\* vldheap.cpp as their initialisers set them, and the records kept about
\* the cycle.
HeapReset ==
    /\ g_vldBlockList' = NULL
    /\ mem' = [a \in HeapAddrs |-> Junk]
    /\ heapBlocks' = {}
    /\ serialnumber' = StaticSerial
    /\ owned' = [t \in Threads |-> {}]
    /\ ret' = [t \in Threads |-> NULL]
    /\ nCalls' = 0
    /\ nNewOk' = 0
    /\ nDeleted' = 0
    /\ serials' = << >>
    /\ UNCHANGED << heap_mutex, pc, args, header, tmp, block >>

\* onLoad(): a host module loads the detector.
OnLoad(m) ==
    /\ m \notin loaders
    /\ loaders' = loaders \cup {m}
    /\ loadCount' = loadCount + 1
    /\ IF IsFirstLoad(loadCount + 1)
       THEN /\ Len(reports) < MaxCycles
            /\ HeapReset
            /\ firstLoader' = m
            /\ peakDepth' = 1
            /\ prevSerials' = Len(serials)
            /\ UNCHANGED tracked
       ELSE /\ peakDepth' = IF loadCount + 1 > peakDepth THEN loadCount + 1 ELSE peakDepth
            /\ UNCHANGED << heapVars, pc, args, header, tmp, block, ret, owned,
                            ghostVars, tracked, firstLoader, prevSerials >>
    /\ UNCHANGED << reports, observed, lpc, lval >>

\* onUnload(): a host module releases the detector.  The last release
\* happens when no thread is inside the module any more.
OnUnload(m) ==
    /\ m \in loaders
    /\ loaders' = loaders \ {m}
    /\ loadCount' = loadCount - 1
    /\ IF IsFinalUnload(loadCount - 1)
       THEN /\ \A t \in Threads : pc[t] = "idle"
            /\ reports' = Append(reports, tracked)
            /\ tracked' = TeardownTracked(tracked)
            /\ HeapTeardown
       ELSE UNCHANGED << heapVars, pc, args, header, tmp, block, ret, owned,
                         ghostVars, tracked, reports >>
    /\ UNCHANGED << firstLoader, peakDepth, observed, prevSerials, lpc, lval >>

\* A loaded host module allocates a block and never frees it.
HostAlloc ==
    /\ loadCount >= 1
    /\ tracked < MaxTracked
    /\ tracked' = tracked + 1
    /\ UNCHANGED << heapVars, pc, args, header, tmp, block, ret, owned, ghostVars,
                    loadCount, loaders, reports, firstLoader, peakDepth, observed,
                    prevSerials, lpc, lval >>

\* Teardowns that a host module has been told to run and has not run yet.
PendingFinal ==
    { x \in Loaders : lpc[x] = "unload" /\ IsFinalUnload(lval[x]) }

\* Mutant of LoadIncrement: the counter is read and written back in two
\* steps instead of one atomic increment.
LoadIncrement_racy(m) ==
    \/ /\ lpc[m] = "idle"
       /\ m \notin loaders
       /\ loadCount = 0 => Len(reports) + Cardinality(PendingFinal) < MaxCycles
       /\ lpc' = [lpc EXCEPT ![m] = "load_read"]
       /\ lval' = [lval EXCEPT ![m] = loadCount]
       /\ UNCHANGED << heapVars, pc, args, header, tmp, block, ret, owned,
                       ghostVars, loadCount, loaders, tracked, reports,
                       firstLoader, peakDepth, observed, prevSerials >>
    \/ /\ lpc[m] = "load_read"
       /\ loaders' = loaders \cup {m}
       /\ loadCount' = lval[m] + 1
       /\ lval' = [lval EXCEPT ![m] = lval[m] + 1]
       /\ lpc' = [lpc EXCEPT ![m] = "load"]
       /\ peakDepth' = IF lval[m] + 1 > peakDepth THEN lval[m] + 1 ELSE peakDepth
       /\ UNCHANGED << heapVars, pc, args, header, tmp, block, ret, owned,
                       ghostVars, tracked, reports, firstLoader, observed,
                       prevSerials >>

\* onLoad(), first step: the atomic increment of the load counter, which
\* hands the caller the counter's new value.
LoadIncrement(m) ==
    /\ lpc[m] = "idle"
    /\ m \notin loaders
    /\ loadCount = 0 => Len(reports) + Cardinality(PendingFinal) < MaxCycles
    /\ loaders' = loaders \cup {m}
    /\ loadCount' = loadCount + 1
    /\ lval' = [lval EXCEPT ![m] = loadCount + 1]
    /\ lpc' = [lpc EXCEPT ![m] = "load"]
    /\ peakDepth' = IF loadCount + 1 > peakDepth THEN loadCount + 1 ELSE peakDepth
    /\ UNCHANGED << heapVars, pc, args, header, tmp, block, ret, owned,
                    ghostVars, tracked, reports, firstLoader, observed,
                    prevSerials >>

\* onLoad(), second step: the caller that was handed the first-load value
\* initialises the heap and the statics; every other caller just returns.
LoadFinish(m) ==
    /\ lpc[m] = "load"
    /\ lpc' = [lpc EXCEPT ![m] = "idle"]
    /\ IF IsFirstLoad(lval[m])
       THEN /\ HeapReset
            /\ firstLoader' = m
            /\ prevSerials' = Len(serials)
       ELSE UNCHANGED << heapVars, pc, args, header, tmp, block, ret, owned,
                         ghostVars, firstLoader, prevSerials >>
    /\ UNCHANGED << loadCount, loaders, tracked, reports, peakDepth, observed,
                    lval >>

\* onUnload(), first step: the atomic decrement of the load counter.
UnloadDecrement(m) ==
    /\ lpc[m] = "idle"
    /\ m \in loaders
    /\ loaders' = loaders \ {m}
    /\ loadCount' = loadCount - 1
    /\ lval' = [lval EXCEPT ![m] = loadCount - 1]
    /\ lpc' = [lpc EXCEPT ![m] = "unload"]
    /\ UNCHANGED << heapVars, pc, args, header, tmp, block, ret, owned,
                    ghostVars, tracked, reports, firstLoader, peakDepth,
                    observed, prevSerials >>

\* onUnload(), second step: the caller that was handed the final-unload
\* value reports the leaks and tears down; every other caller just returns.
UnloadFinish(m) ==
    /\ lpc[m] = "unload"
    /\ lpc' = [lpc EXCEPT ![m] = "idle"]
    /\ IF IsFinalUnload(lval[m])
       THEN /\ \A t \in Threads : pc[t] = "idle"
            /\ reports' = Append(reports, tracked)
            /\ tracked' = TeardownTracked(tracked)
            /\ HeapTeardown
       ELSE UNCHANGED << heapVars, pc, args, header, tmp, block, ret, owned,
                         ghostVars, tracked, reports >>
    /\ UNCHANGED << loadCount, loaders, firstLoader, peakDepth, observed,
                    prevSerials, lval >>

\* int w = VLDGetLeaksCount(); the test asks for the leak count.
QueryLeaks ==
    /\ observed' = VLDGetLeaksCount
    /\ UNCHANGED << heapVars, pc, args, header, tmp, block, ret, owned, ghostVars,
                    loadCount, loaders, tracked, reports, firstLoader, peakDepth,
                    prevSerials, lpc, lval >>

\* ------------------------------------------------------------ specification

\* One step of thread t inside operator new / operator delete.
HeapStep(t) ==
    \/ \E a \in NewArgs : CallNew(t, a)
    \/ RtlAllocateHeap(t)
    \/ NewOutOfMemory(t)
    \/ NewFillRead(t)
    \/ NewFillWrite(t)
    \/ NewLock(t)
    \/ NewLinkNext(t)
    \/ NewLinkHead(t)
    \/ NewReturn(t)
    \/ \E p \in {NULL} \cup { VLDBLOCKDATA(h) : h \in HeapAddrs } : CallDelete(t, p)
    \/ DeleteNull(t)
    \/ DeleteHeader(t)
    \/ DeleteLock(t)
    \/ DeleteUnlinkPrev(t)
    \/ DeleteUnlinkNext(t)
    \/ RtlFreeHeap(t)

\* Threads of the loaded module allocating and freeing concurrently.
Next == \E t \in Threads : HeapStep(t)

Spec == Init /\ [][Next]_vars

\* The module is not loaded; host modules load and unload it and leak
\* allocations while it is loaded.
InitLoad ==
    /\ HeapInit
    /\ loadCount = 0
    /\ loaders = {}
    /\ tracked = 0
    /\ reports = << >>
    /\ firstLoader = 0
    /\ peakDepth = 0
    /\ observed = -1
    /\ prevSerials = 0
    /\ lpc = [m \in 1 .. NumLoaders |-> "idle"]
    /\ lval = [m \in 1 .. NumLoaders |-> 0]

NextLoad ==
    \/ \E m \in Loaders : OnLoad(m)
    \/ \E m \in Loaders : OnUnload(m)
    \/ HostAlloc
    \/ QueryLeaks

SpecLoad == InitLoad /\ [][NextLoad]_vars

\* Host modules load and unload the module concurrently, each in the two
\* steps of its handler, and leak allocations while it is loaded.
NextEdge ==
    \/ \E m \in Loaders : LoadIncrement(m)
    \/ \E m \in Loaders : LoadFinish(m)
    \/ \E m \in Loaders : UnloadDecrement(m)
    \/ \E m \in Loaders : UnloadFinish(m)
    \/ HostAlloc

SpecEdge == InitLoad /\ [][NextEdge]_vars

\* The module is not loaded; one host module loads and unloads it, and
\* while it is loaded one thread allocates and frees.
NextCycle ==
    \/ OnLoad(1)
    \/ OnUnload(1)
    \/ loadCount >= 1 /\ HeapStep(1)

SpecCycle == InitLoad /\ [][NextCycle]_vars

\* A single thread of the loaded module allocating and freeing.
NextSeq == HeapStep(1)

SpecSeq == Init /\ [][NextSeq]_vars

\* A call in progress: a step of thread t other than entering a new call.
InCall(t) == pc[t] # "idle" /\ HeapStep(t)

\* Concurrent threads under a scheduler that does not stop running a thread
\* whose call can take its next step.
SpecFair == Init /\ [][Next]_vars /\ \A t \in Threads : WF_vars(InCall(t))

\* -------------------------------------------------------------- properties

RECURSIVE Walk(_, _)
\* The headers met from h along next, at most n of them.
Walk(h, n) ==
    IF h \notin HeapAddrs \/ n = 0 THEN << >>
    ELSE << h >> \o Walk(mem[h].next, n - 1)

\* The block list as read from g_vldBlockList.
BlockList == Walk(g_vldBlockList, MaxBlocks + 1)

Range(q) == { q[i] : i \in DOMAIN q }

NoRepeat(q) == \A i, j \in DOMAIN q : i # j => q[i] # q[j]

\* Headers of the blocks the callers hold: returned by vldnew, not yet deleted.
LiveHeaders == { VLDBLOCKHEADER(o.ptr) : o \in UNION { owned[t] : t \in Threads } }

\* No thread is inside vldnew or vlddelete.
Quiescent == \A t \in Threads : pc[t] = "idle"

\* C1: between calls the block list holds exactly the blocks allocated and
\* not yet freed, each once, and their number is the number of successful
\* allocations minus the number of deallocations of such blocks.
RegistryMatchesLiveBlocks ==
    Quiescent =>
        /\ Len(BlockList) = nNewOk - nDeleted
        /\ Range(BlockList) = LiveHeaders
        /\ NoRepeat(BlockList)

RegistryMatchesLiveBlocks_witness ==
    /\ Quiescent
    /\ nNewOk = 3
    /\ nDeleted = 1
    /\ Len(BlockList) = 2
    /\ g_vldBlockList > mem[g_vldBlockList].next

\* C2: no two successful allocations get the same serial number, whatever
\* the interleaving of the allocating threads.
SerialNumbersUnique == NoRepeat(serials)

\* The block list is one acyclic doubly linked list ending in nullptr.
WellLinked ==
    /\ g_vldBlockList \in HeapAddrs \cup {NULL}
    /\ g_vldBlockList # NULL => mem[g_vldBlockList].prev = NULL
    /\ Len(BlockList) <= MaxBlocks
    /\ NoRepeat(BlockList)
    /\ \A i \in DOMAIN BlockList :
          LET b == BlockList[i]
          IN  /\ mem[b].next \in HeapAddrs \cup {NULL}
              /\ mem[b].prev \in HeapAddrs \cup {NULL}
              /\ mem[b].next # NULL => mem[mem[b].next].prev = b
              /\ mem[b].prev # NULL => mem[mem[b].prev].next = b

\* C3: whenever no thread holds the lock, the block list is a single acyclic
\* doubly linked list: the head has no predecessor, and next and prev of
\* neighbouring blocks point at each other.
ListWellLinkedWhenUnlocked == heap_mutex = NoThread => WellLinked

ListWellLinkedWhenUnlocked_witness ==
    /\ heap_mutex = NoThread
    /\ Len(BlockList) = 3
    /\ \E t \in Threads : pc[t] \in {"new_lock", "del_lock"}

\* C4: once every thread has freed all the blocks it allocated and has
\* returned, the block list is empty.
EmptyWhenAllFreed ==
    (Quiescent /\ \A t \in Threads : owned[t] = {}) => g_vldBlockList = NULL

EmptyWhenAllFreed_witness ==
    /\ Quiescent
    /\ \A t \in Threads : owned[t] = {}
    /\ nNewOk = MaxNew
    /\ nDeleted = MaxNew
    /\ \E i, j \in DOMAIN serials : i # j /\ serials[i] = serials[j]

\* C5: with a single thread, every successful allocation gets a serial
\* number greater than all the serial numbers handed out before it.
SerialNumbersIncrease ==
    \A i, j \in DOMAIN serials : i < j => serials[i] < serials[j]

SerialNumbersIncrease_witness ==
    /\ Len(serials) = 3
    /\ nDeleted >= 1
    /\ Len(BlockList) = 2
    /\ Quiescent

\* The registry: the list head, the list read from it and its links.
Registry ==
    << g_vldBlockList, BlockList,
       [b \in Range(BlockList) |-> << mem[b].prev, mem[b].next >>] >>

\* C6: a vldnew whose heap allocation fails returns nullptr and leaves the
\* head, the list and every header's links as they were.
FailedAllocationLeavesRegistry ==
    [][\A t \in Threads :
          /\ (pc[t] = "new_alloc" /\ pc'[t] = "new_check" /\ header'[t] = NULL)
                => (Registry' = Registry /\ mem' = mem)
          /\ (pc[t] = "new_check" /\ header[t] = NULL /\ pc'[t] # "new_check")
                => /\ Registry' = Registry
                   /\ mem' = mem
                   /\ pc'[t] = "idle"
                   /\ ret'[t] = NULL]_vars

FailedAllocationLeavesRegistry_witness ==
    /\ Quiescent
    /\ nCalls = 3
    /\ nNewOk = 2
    /\ Len(BlockList) = 2
    /\ \E t \in Threads : ret[t] = NULL

\* C7: vlddelete(nullptr) returns at once: the block list, the header
\* memory, the serial counter and the heap stay as they are and the lock is
\* not taken.
DeleteNullIsNoOp ==
    [][\A t \in Threads :
          /\ (pc[t] = "idle" /\ pc'[t] = "del_check" /\ block'[t] = NULL)
                => UNCHANGED heapVars
          /\ (pc[t] = "del_check" /\ block[t] = NULL /\ pc'[t] # "del_check")
                => (UNCHANGED heapVars /\ pc'[t] = "idle")]_vars

DeleteNullIsNoOp_witness ==
    /\ \E t \in Threads : pc[t] = "del_check" /\ block[t] = NULL
    /\ Len(BlockList) = 2
    /\ nDeleted >= 1

\* C8: for every block a caller holds, the header found behind the returned
\* pointer is an allocated header whose size, file and line are the values
\* the caller passed.
HeaderRoundTrip ==
    \A t \in Threads : \A o \in owned[t] :
        LET h == VLDBLOCKHEADER(o.ptr)
        IN  /\ h \in heapBlocks
            /\ mem[h].size = o.size
            /\ mem[h].file = o.file
            /\ mem[h].line = o.line

HeaderRoundTrip_witness ==
    /\ nDeleted >= 1
    /\ Quiescent
    /\ \E t \in Threads : \E o1, o2 \in owned[t] :
          /\ o1.size # o2.size
          /\ mem[VLDBLOCKHEADER(o1.ptr)].next = VLDBLOCKHEADER(o2.ptr)
          /\ o1.ptr < o2.ptr

\* C9 as claimed: no thread holds the lock while it is in RtlAllocateHeap or
\* in RtlFreeHeap.
LockNeverHeldInHeapCall ==
    \A t \in Threads : pc[t] \in {"new_alloc", "del_free"} => heap_mutex # t

\* C9 as amended: no thread holds the lock while it is in RtlAllocateHeap;
\* RtlFreeHeap is called with the lock held, after the unlink.
LockHeldForFreeOnly ==
    \A t \in Threads :
        /\ pc[t] = "new_alloc" => heap_mutex # t
        /\ pc[t] = "del_free" => heap_mutex = t

LockHeldForFreeOnly_witness ==
    \E t, u \in Threads :
        /\ pc[t] = "new_alloc"
        /\ pc[u] = "del_free"
        /\ heap_mutex = u

\* C10: a nested load and an unload that is not the last one leave the
\* tracked leak count, and what the query returns, as they were, and a
\* leak report is emitted only by the unload that takes the depth from 1 to 0.
NestedLoadsKeepTracking ==
    [][/\ (loadCount >= 1 /\ loadCount' = loadCount + 1)
            => (tracked' = tracked /\ VLDGetLeaksCount' = VLDGetLeaksCount
                /\ reports' = reports)
       /\ (loadCount >= 2 /\ loadCount' = loadCount - 1)
            => (tracked' = tracked /\ VLDGetLeaksCount' = VLDGetLeaksCount
                /\ reports' = reports)
       /\ reports' # reports => (loadCount = 1 /\ loadCount' = 0)]_vars

NestedLoadsKeepTracking_witness ==
    /\ loadCount = 1
    /\ peakDepth = 2
    /\ firstLoader \notin loaders
    /\ tracked = 2
    /\ VLDGetLeaksCount = 2

\* C11: a leak-count query made while the load-cycle counter is 0 returns
\* the sentinel -1, whatever was returned before; a query made while the
\* counter is at least 1 returns the current count of unresolved tracked
\* allocations, which is not negative.
QueryFollowsLoadState ==
    /\ [](/\ loadCount = 0 => VLDGetLeaksCount = -1
          /\ loadCount >= 1 => (VLDGetLeaksCount = tracked /\ VLDGetLeaksCount >= 0))
    /\ [][observed' # observed =>
             /\ loadCount = 0 => observed' = -1
             /\ loadCount >= 1 => (observed' = tracked /\ observed' >= 0)]_vars

QueryFollowsLoadState_witness ==
    /\ loadCount = 0
    /\ observed = -1
    /\ Len(reports) = 2
    /\ reports[1] = 1
    /\ reports[2] = 2

\* C12: the first load after a full unload starts with a leak count of
\* zero, and every leaked allocation adds one to what the query returns,
\* whatever the earlier cycles counted.
CyclesAreIndependent ==
    [][/\ (loadCount = 0 /\ loadCount' = 1) => VLDGetLeaksCount' = 0
       /\ (loadCount >= 1 /\ loadCount' = loadCount /\ tracked' # tracked)
             => VLDGetLeaksCount' = VLDGetLeaksCount + 1]_vars

CyclesAreIndependent_witness ==
    /\ Len(reports) = 1
    /\ reports[1] = 2
    /\ loadCount = 1
    /\ tracked = 1
    /\ observed = 1

\* C13: every first load (0 -> 1) leaves the serial counter at 0 and the
\* block list empty, and the first allocation that succeeds after it gets
\* serial number 0, also when an earlier load cycle handed out serial numbers.
FirstLoadResetsSerial ==
    /\ [](Len(serials) >= 1 => serials[1] = 0)
    /\ [][(loadCount = 0 /\ loadCount' = 1) =>
             (serialnumber' = 0 /\ g_vldBlockList' = NULL /\ BlockList' = << >>)]_vars

FirstLoadResetsSerial_witness ==
    /\ Len(reports) = 1
    /\ prevSerials >= 2
    /\ loadCount = 1
    /\ g_vldBlockList # NULL
    /\ mem[g_vldBlockList].serialNumber = 0
    /\ serials = << 0 >>

\* What one step does to the load counter and to the values handed to the
\* callers of onLoad and onUnload.
EdgesObservedOnceStep ==
    /\ (loadCount = 0 /\ loadCount' = 1) <=>
           (Cardinality({ m \in Loaders : /\ lpc[m] # "load"
                                          /\ lpc'[m] = "load"
                                          /\ IsFirstLoad(lval'[m]) }) = 1)
    /\ (loadCount = 1 /\ loadCount' = 0) <=>
           (Cardinality({ m \in Loaders : /\ lpc[m] # "unload"
                                          /\ lpc'[m] = "unload"
                                          /\ IsFinalUnload(lval'[m]) }) = 1)
    /\ Cardinality({ m \in Loaders : lpc'[m] = "load" /\ IsFirstLoad(lval'[m]) }) <= 1

\* C14: with host modules loading and unloading concurrently the load
\* counter is never negative, the counter goes 0 -> 1 in exactly the steps in
\* which one onLoad call is handed the first-load value (so initialisation
\* runs once per cycle), and it goes 1 -> 0 in exactly the steps in which one
\* onUnload call is handed the final-unload value.
EdgesObservedOnce ==
    /\ [](loadCount >= 0 /\ loadCount = Cardinality(loaders))
    /\ [][EdgesObservedOnceStep]_vars

EdgesObservedOnce_witness ==
    /\ Len(reports) = 1
    /\ lpc[1] = "unload" /\ lval[1] = 1
    /\ lpc[2] = "unload" /\ lval[2] = 0
    /\ firstLoader = 2

\* C15: the link step of a successful vldnew puts the new block at the
\* front: afterwards it is the list head, its next is the head from before,
\* and the blocks that were in the list follow it in their old order.
NewBlockLinkedAtFront ==
    [][\A t \in Threads :
          /\ (pc[t] = "new_link_next" /\ pc'[t] = "new_link_head")
                => /\ BlockList' = BlockList
                   /\ mem'[header[t]].next = g_vldBlockList
          /\ (pc[t] = "new_link_head" /\ pc'[t] = "new_return")
                => /\ g_vldBlockList' = header[t]
                   /\ mem'[header[t]].next = g_vldBlockList
                   /\ BlockList' = << header[t] >> \o BlockList]_vars

NewBlockLinkedAtFront_witness ==
    \E t, u \in Threads :
       /\ pc[t] = "new_return"
       /\ BlockList[1] = header[t]
       /\ Len(BlockList) = 3
       /\ pc[u] = "del_lock"

\* C16: a block that has been released to the heap is neither in the list
\* read from the head nor the prev or next of a block in that list or of a
\* block a caller holds, in every state of every interleaving.
ReleasedBlocksUnreachable ==
    /\ Range(BlockList) \subseteq heapBlocks
    /\ LiveHeaders \subseteq heapBlocks
    /\ \A b \in Range(BlockList) \cup LiveHeaders :
          /\ mem[b].next \in heapBlocks \cup {NULL}
          /\ mem[b].prev \in heapBlocks \cup {NULL}

ReleasedBlocksUnreachable_witness ==
    /\ nNewOk = 3
    /\ Cardinality(heapBlocks) = 2
    /\ \E t \in Threads : pc[t] = "del_unlink_next" /\ mem[header[t]].next # NULL

\* The header at b has had file, line, serialNumber and size written.
Populated(b) ==
    /\ mem[b].file \in { a.file : a \in NewArgs }
    /\ mem[b].line > 0
    /\ mem[b].serialNumber >= 0
    /\ mem[b].size > 0

\* C17: every block reachable from the list head has its file, line,
\* serialNumber and size written, and whenever the lock is free (so that a
\* traversal can take it) the links of the list are whole.
TraversalSeesWholeHeaders ==
    /\ \A b \in Range(BlockList) : Populated(b)
    /\ heap_mutex = NoThread =>
          /\ WellLinked
          /\ \A b \in Range(BlockList) : b \in heapBlocks

TraversalSeesWholeHeaders_witness ==
    /\ heap_mutex = NoThread
    /\ Len(BlockList) = 1
    /\ \E t, u \in Threads :
          /\ pc[t] = "new_fill"
          /\ pc[u] = "new_check" /\ header[u] # NULL

\* C18: under fair scheduling every call of vldnew and vlddelete returns,
\* and a thread that has returned, by whichever path, does not hold the lock.
CallsReturnAndUnlock ==
    /\ [](\A t \in Threads : pc[t] = "idle" => heap_mutex # t)
    /\ \A t \in Threads : (pc[t] # "idle") ~> (pc[t] = "idle")

CallsReturnAndUnlock_witness ==
    \E t, u \in Threads :
       /\ pc[t] = "new_lock"
       /\ heap_mutex = u
       /\ pc[u] = "del_free"
       /\ nCalls > nNewOk + 1

\* C19: in a single-threaded run a failed allocation uses up no serial
\* number: the successful allocations get 0, 1, 2, ... with no gaps, and
\* the counter is the number of serial numbers handed out.
SerialsConsecutive ==
    /\ serialnumber = Len(serials)
    /\ \A i \in DOMAIN serials : serials[i] = i - 1

SerialsConsecutive_witness ==
    /\ nCalls = 3
    /\ nNewOk = 1
    /\ pc[1] = "new_lock"
    /\ serials = << 0, 1 >>

\* C20: whenever no thread holds the lock, the serial numbers read along
\* the block list from head to tail are strictly decreasing.
ListNewestFirst ==
    heap_mutex = NoThread =>
       \A i, j \in DOMAIN BlockList :
          i < j => mem[BlockList[i]].serialNumber > mem[BlockList[j]].serialNumber

====
